---- MODULE Spec2Model ----
(***************************************************************************)
(* Model of the notification coordinator of ConnectApi                     *)
(* (src/src/connect/connectApi.ts): the dispatcher notify(), the pending   *)
(* async map _asyncFns, the per-resource subscription map _notifyFns, the  *)
(* handleNotifications flag, the five resource operations that register    *)
(* completions, getWebhook, updateWebhook, deleteWebhook, and the poll     *)
(* cycle of startNotifications with stopNotifications.                     *)
(*                                                                         *)
(* Strings that the code takes apart or concatenates (device ids, resource *)
(* paths, map keys) are sequences of one-character strings.  User supplied *)
(* functions (completion callbacks, notify functions, event listeners) are *)
(* observers: an invocation is appended to `trace` and returns normally.   *)
(* SpecCallbacks alone lets a completion throw or call notify() itself.    *)
(***************************************************************************)
EXTENDS Integers, Sequences, FiniteSets, TLC

\* getWebhook requests in flight at one time.
MaxWebhookGets == 1
\* Number of elements, over all six fields, of one notification batch.
MaxItems == 2
\* Invocations of one completion.
MaxInvocations == 2
\* stopNotifications, deleteWebhook and updateWebhook calls in progress at one time.
MaxStops == 1
MaxWebhookDeletes == 1
MaxUpdates == 1

----------------------------------------------------------------------------
(* Values *)

NullBody == "<null>"
Undefined == "<undefined>"
NoFn == "<none>"
Slash == "/"

Devices == { <<"d">> }
\* Resource paths as callers of the subscription API write them.
ResourcePaths == { <<"a">>, <<"/", "a">>, <<"b">> }
\* The two ways of writing one resource path.
OnePath == { <<"a">>, <<"/", "a">> }
\* Resource paths as they occur in the `path` field of a notification.
NotificationPaths == { <<"a">>, <<"/", "a">> }
\* Base64 payloads; "" is an absent (falsy) payload.
Payloads == { "", "NDI=" }
AsyncIds == { "x", "y" }
Statuses == { 399, 400 }
ErrorTexts == { "" }
NotifyFunctions == { "f", "g" }
\* The completions (`done`) of the resource operations called in one
\* behaviour, in the order of the calls.
CallOrder == << "c1", "c2" >>
NoCaller == "<nobody>"

ErrNull == [kind |-> "null", message |-> "", code |-> 0]

\* new SDKError(message, innerError, details, code)
SDKError(message, code) == [kind |-> "SDKError", message |-> message, code |-> code]

\* A webhook as the backend sends it, and no webhook.
RawWebhooks == [url : {"u", "v"}, headers : {"", "h"}]
NoWebhook == [kind |-> "null", url |-> "", headers |-> ""]

StatusText(status) ==
    CASE status = 399 -> "399"
      [] status = 400 -> "400"
      [] status = 404 -> "404"
      [] status = 500 -> "500"
      [] OTHER -> "status"

\* atob(): the text a base64 payload encodes.
Base64Text(payload) ==
    CASE payload = "NDI=" -> "42"
      [] payload = "eA==" -> "x"
      [] OTHER -> ""

\* decodeBase64(payload, contentType) of common/functions.
decodeBase64(payload) == Base64Text(payload)

\* An observable effect of a call: an emitted event, an invocation of a
\* notify function, or an invocation of a completion callback.  idx is the
\* position, in its field of the batch, of the element that caused it;
\* webhook and responses are the arguments that are not a payload.
Effect(kind, name, caller, dev, path, body, err, idx) ==
    [kind |-> kind, name |-> name, caller |-> caller, dev |-> dev,
     path |-> path, body |-> body, err |-> err, idx |-> idx,
     webhook |-> NoWebhook, responses |-> << >>]

Put_KeepsFirst(f, k, v) ==
    [x \in (DOMAIN f) \cup {k} |-> IF x \in DOMAIN f THEN f[x] ELSE v]

\* f[k] = v
Put(f, k, v) == [x \in (DOMAIN f) \cup {k} |-> IF x = k THEN v ELSE f[x]]
Remove(f, k) == [x \in (DOMAIN f) \ {k} |-> f[x]]
EmptyMap == [x \in {} |-> 0]

----------------------------------------------------------------------------
(* Notification batches *)

NotificationItems ==
    [ep : Devices, path : NotificationPaths, payload : Payloads]
\* The elements of the batches that mix all six fields.
MixedNotificationItems ==
    [ep : Devices, path : { <<Slash, "a">> }, payload : {""}]
MixedAsyncItems ==
    [id : AsyncIds, status : {399}, payload : {""}, error : ErrorTexts]
DeviceItems == [ep : Devices]
AsyncItems ==
    [id : AsyncIds, status : Statuses, payload : Payloads, error : ErrorTexts]

RECURSIVE SumTo(_, _)
SumTo(k, n) == IF n = 0 THEN 0 ELSE k[n] + SumTo(k, n - 1)

Shapes == { k \in [1..6 -> 0..MaxItems] : SumTo(k, 6) <= MaxItems }

\* asyncPresent: data["async-responses"] is there (an array, truthy); an
\* absent field reads as the empty sequence.
BatchesOfShape(k, items, responses) ==
    { [isNull |-> FALSE, notifications |-> n, registrations |-> r,
       regUpdates |-> u, deRegistrations |-> d, registrationsExpired |-> e,
       asyncResponses |-> a, asyncPresent |-> (k[6] > 0)] :
        n \in [1..k[1] -> items],
        r \in [1..k[2] -> DeviceItems],
        u \in [1..k[3] -> DeviceItems],
        d \in [1..k[4] -> Devices],
        e \in [1..k[5] -> Devices],
        a \in [1..k[6] -> responses] }

NullData ==
    [isNull |-> TRUE, notifications |-> <<>>, registrations |-> <<>>,
     regUpdates |-> <<>>, deRegistrations |-> <<>>,
     registrationsExpired |-> <<>>, asyncResponses |-> <<>>,
     asyncPresent |-> FALSE]

Batches ==
    UNION { BatchesOfShape(k, MixedNotificationItems, MixedAsyncItems) : k \in Shapes }

\* Batches of async responses alone.
AsyncBatches ==
    UNION { BatchesOfShape(k, NotificationItems, AsyncItems) :
                k \in { s \in Shapes : SumTo(s, 6) = s[6] } }

\* Batches of resource notifications alone.
NotificationBatches ==
    UNION { BatchesOfShape(k, NotificationItems, AsyncItems) :
                k \in { s \in Shapes : SumTo(s, 6) = s[1] } }

----------------------------------------------------------------------------
VARIABLES
    handleNotifications,   \* the public flag
    asyncFns,              \* _asyncFns: asyncId -> completion (its caller)
    notifyFns,             \* _notifyFns: key -> notify function
    requests,              \* resource-operation HTTP requests in flight
    called,                \* the completions of the operations called so far
    invoked,               \* caller -> times its completion was invoked
    webhookGets,           \* getWebhook requests in flight
    batch,                 \* <<data>> of the latest notify() call, else <<>>
    answer,                \* <<HTTP response>> the latest call handled, else <<>>
    trace,                 \* the effects of the latest call, in order
    retired,               \* the notify functions replaced or deleted so far
    pollLoops,             \* per startNotifications call: its poll cycle
    pollRequest,           \* _pollRequest: the cycle whose fetch it holds
    stops,                 \* stopNotifications requests in flight
    updates,               \* updateWebhook calls in progress
    webhookDeletes,        \* deleteWebhook requests in flight
    backendWebhook,        \* the webhook the backend has registered
    stopped                \* the cycles that were alive when a stop completed

\* The state of the pull loop and of the webhook registry.
pullVars == <<pollLoops, pollRequest, stops, updates, webhookDeletes,
              backendWebhook, stopped>>

vars == <<handleNotifications, asyncFns, notifyFns, requests, called,
          invoked, webhookGets, batch, answer, trace, retired,
          pollLoops, pollRequest, stops, updates, webhookDeletes,
          backendWebhook, stopped>>

\* The calls of startNotifications, in order.
StartOrder == <<"s1", "s2">>
Starts == { StartOrder[i] : i \in 1..Len(StartOrder) }
NoRequest == "<no request>"

\* The poll cycle of a startNotifications call that has not been made.
IdleLoop ==
    [started |-> FALSE, requestCallback |-> FALSE,
     precondition |-> 0, fetches |-> 0, timers |-> 0, overlaps |-> FALSE]

Callers == { CallOrder[i] : i \in 1..Len(CallOrder) }

\* The completion of the next operation to be called.
NextCaller == CallOrder[Cardinality(called) + 1]

Init ==
    /\ handleNotifications = FALSE
    /\ asyncFns = EmptyMap
    /\ notifyFns = EmptyMap
    /\ requests = {}
    /\ called = {}
    /\ invoked = [c \in Callers |-> 0]
    /\ webhookGets = 0
    /\ batch = <<>>
    /\ answer = <<>>
    /\ trace = <<>>
    /\ retired = {}
    /\ pollLoops = [l \in Starts |-> IdleLoop]
    /\ pollRequest = NoRequest
    /\ stops = 0
    /\ updates = {}
    /\ webhookDeletes = 0
    /\ backendWebhook = NoWebhook
    /\ stopped = {}

----------------------------------------------------------------------------
(* notify() *)

\* The effects of the previous call have been looked at: `batch` and `trace`
\* describe one call at a time.
Observed == batch = << >> /\ answer = << >> /\ trace = << >>

normalizePath(path) ==
    IF path # <<>> /\ Head(path) = Slash THEN Tail(path) ELSE path

NotificationKey_Normalized(notification) ==
    notification.ep \o <<Slash>> \o normalizePath(notification.path)

\* The key notify() looks a notification up under.
NotificationKey(notification) == notification.ep \o notification.path

NotificationBody(payload) ==
    IF payload # "" THEN decodeBase64(payload) ELSE NullBody

NotificationStep_EmitsIfUnsubscribed(fns, notification, i) ==
    LET body == NotificationBody(notification.payload)
        path == NotificationKey(notification)
    IN  IF path \in DOMAIN fns
        THEN << Effect("notifyFn", fns[path], NoCaller, notification.ep,
                       notification.path, body, ErrNull, i) >>
        ELSE << Effect("emit", "notification", NoCaller, notification.ep,
                       notification.path, body, ErrNull, i) >>

\* One element of data.notifications.
NotificationStep(fns, notification, i) ==
    LET body == NotificationBody(notification.payload)
        path == NotificationKey(notification)
        call == IF path \in DOMAIN fns
                THEN << Effect("notifyFn", fns[path], NoCaller, notification.ep,
                               notification.path, body, ErrNull, i) >>
                ELSE << >>
    IN  call \o << Effect("emit", "notification", NoCaller, notification.ep,
                          notification.path, body, ErrNull, i) >>

RECURSIVE ForEachNotification(_, _, _)
ForEachNotification(fns, ns, i) ==
    IF i > Len(ns) THEN << >>
    ELSE NotificationStep(fns, ns[i], i) \o ForEachNotification(fns, ns, i + 1)

\* registrations and reg-updates carry DeviceEventAdapter.map(device);
\* de-registrations and registrations-expired carry the device id itself.
RECURSIVE ForEachDevice(_, _, _)
ForEachDevice(name, ds, i) ==
    IF i > Len(ds) THEN << >>
    ELSE << Effect("emit", name, NoCaller, ds[i].ep, << >>, "ConnectedDevice", ErrNull, i) >>
         \o ForEachDevice(name, ds, i + 1)

RECURSIVE ForEachDeviceId(_, _, _)
ForEachDeviceId(name, ids, i) ==
    IF i > Len(ids) THEN << >>
    ELSE << Effect("emit", name, NoCaller, ids[i], << >>, NullBody, ErrNull, i) >>
         \o ForEachDeviceId(name, ids, i + 1)

AsyncIsError_Above400(status) == status > 400

AsyncIsError(status) == status >= 400

AsyncErrorMessage(response) ==
    IF response.error # "" THEN response.error ELSE StatusText(response.status)

\* The invocation of the completion fn for one async response.
AsyncCall(caller, response, i) ==
    IF AsyncIsError(response.status)
    THEN Effect("asyncFn", "done", caller, << >>, << >>, NullBody,
                SDKError(AsyncErrorMessage(response), response.status), i)
    ELSE Effect("asyncFn", "done", caller, << >>, << >>,
                NotificationBody(response.payload), ErrNull, i)

AsyncAfterCall_KeepsEntry(fns, asyncID) == fns

\* delete this._asyncFns[asyncID]
AsyncAfterCall(fns, asyncID) == Remove(fns, asyncID)

AsyncStep_ReportsUnmatched(fns, response, i) ==
    IF response.id \in DOMAIN fns
    THEN [fns |-> AsyncAfterCall(fns, response.id),
          calls |-> << AsyncCall(fns[response.id], response, i) >>]
    ELSE [fns |-> fns,
          calls |-> << Effect("emit", "error", NoCaller, << >>, << >>, NullBody,
                              SDKError("unmatched", response.status), i) >>]

\* One element of data["async-responses"]: [fns, calls] afterwards.
AsyncStep(fns, response, i) ==
    LET asyncID == response.id
    IN  IF asyncID \in DOMAIN fns
        THEN [fns |-> AsyncAfterCall(fns, asyncID),
              calls |-> << AsyncCall(fns[asyncID], response, i) >>]
        ELSE [fns |-> fns, calls |-> << >>]

RECURSIVE ForEachAsync(_, _, _)
ForEachAsync(fns, rs, i) ==
    IF i > Len(rs) THEN [fns |-> fns, calls |-> << >>]
    ELSE LET one == AsyncStep(fns, rs[i], i)
             rest == ForEachAsync(one.fns, rs, i + 1)
         IN  [fns |-> rest.fns, calls |-> one.calls \o rest.calls]

NotifyEvents_ExpiredFirst(data, fns) ==
    ForEachNotification(fns, data.notifications, 1)
    \o ForEachDevice("registration", data.registrations, 1)
    \o ForEachDevice("reregistration", data.regUpdates, 1)
    \o ForEachDeviceId("expired", data.registrationsExpired, 1)
    \o ForEachDeviceId("deregistration", data.deRegistrations, 1)

\* The effects of notify(data) before its async responses, in order.
NotifyEvents(data, fns) ==
    ForEachNotification(fns, data.notifications, 1)
    \o ForEachDevice("registration", data.registrations, 1)
    \o ForEachDevice("reregistration", data.regUpdates, 1)
    \o ForEachDeviceId("deregistration", data.deRegistrations, 1)
    \o ForEachDeviceId("expired", data.registrationsExpired, 1)

\* notify(data): [fns, trace], the pending map afterwards and the effects.
NotifyResult(data, nfns, afns) ==
    IF data.isNull THEN [fns |-> afns, trace |-> << >>]
    ELSE LET async == ForEachAsync(afns, data.asyncResponses, 1)
         IN  [fns |-> async.fns,
              trace |-> NotifyEvents(data, nfns) \o async.calls]

RECURSIVE CountCalls(_, _)
CountCalls(calls, c) ==
    IF calls = << >> THEN 0
    ELSE (IF Head(calls).kind \in {"asyncFn", "done"} /\ Head(calls).caller = c
          THEN 1 ELSE 0) + CountCalls(Tail(calls), c)

Invoke(calls) == [c \in Callers |-> invoked[c] + CountCalls(calls, c)]

Notify_OnlyWhenHandling(data) ==
    /\ Observed
    /\ LET res == IF handleNotifications
                  THEN NotifyResult(data, notifyFns, asyncFns)
                  ELSE [fns |-> asyncFns, trace |-> << >>]
       IN  /\ asyncFns' = res.fns
           /\ trace' = res.trace
           /\ invoked' = Invoke(res.trace)
    /\ batch' = << data >>
    /\ answer' = << >>
    /\ UNCHANGED <<handleNotifications, notifyFns, requests, called, webhookGets, retired>>
    /\ UNCHANGED pullVars

\* notify(data), called by the application.
Notify(data) ==
    /\ Observed
    /\ LET res == NotifyResult(data, notifyFns, asyncFns)
       IN  /\ asyncFns' = res.fns
           /\ trace' = res.trace
           /\ invoked' = Invoke(res.trace)
    /\ batch' = << data >>
    /\ answer' = << >>
    /\ UNCHANGED <<handleNotifications, notifyFns, requests, called, webhookGets, retired>>
    /\ UNCHANGED pullVars

\* The application has looked at what the latest call did.
Observe ==
    /\ ~Observed
    /\ batch' = << >>
    /\ answer' = << >>
    /\ trace' = << >>
    /\ UNCHANGED <<handleNotifications, asyncFns, notifyFns, requests,
                   called, invoked, webhookGets, retired>>
    /\ UNCHANGED pullVars

\* The application assigns the public field (webhook use of notify()).
SetHandleNotifications(value) ==
    /\ Observed
    /\ handleNotifications # value
    /\ handleNotifications' = value
    /\ UNCHANGED <<batch, answer, trace, asyncFns, notifyFns, requests, called,
                   invoked, webhookGets, retired>>
    /\ UNCHANGED pullVars

----------------------------------------------------------------------------
(* The resource operations *)

NoError == ErrNull
TransportErrors == { NoError, SDKError("transport", 500) }

\* The key addResourceSubscription and deleteResourceSubscription use;
\* resourcePath has been through normalizePath.
SubscriptionKey(deviceId, resourcePath) == deviceId \o << Slash >> \o resourcePath

Request(caller, op, deviceId, resourcePath, notifyFn) ==
    [caller |-> caller, op |-> op, deviceId |-> deviceId,
     resourcePath |-> resourcePath, notifyFn |-> notifyFn]

\* What an HTTP request was answered with: the request, and the (error, data)
\* its callback received; asyncID is data["async-response-id"], "" if absent.
NoData == [url |-> "", headers |-> ""]
HttpResponse(request, error, asyncID, data) ==
    [request |-> request, error |-> error, asyncID |-> asyncID, data |-> data]

\* An operation is called: its HTTP request is issued.
Call(request) ==
    /\ Observed
    /\ Cardinality(called) < Len(CallOrder)
    /\ requests' = requests \cup { request }
    /\ called' = called \cup { request.caller }
    /\ UNCHANGED <<batch, answer, trace, handleNotifications, asyncFns, notifyFns,
                   invoked, webhookGets, retired>>
    /\ UNCHANGED pullVars

\* get, set and execute keep neither the device id nor the path for their
\* response handler, so the request in flight does not carry them here.
GetResourceValue(deviceId, resourcePath) ==
    Call(Request(NextCaller, "getResourceValue", << >>, << >>, NoFn))

SetResourceValue(deviceId, resourcePath) ==
    Call(Request(NextCaller, "setResourceValue", << >>, << >>, NoFn))

ExecuteResource(deviceId, resourcePath) ==
    Call(Request(NextCaller, "executeResource", << >>, << >>, NoFn))

AddResourceSubscription(deviceId, resourcePath, notifyFn) ==
    Call(Request(NextCaller, "addResourceSubscription", deviceId,
                 normalizePath(resourcePath), notifyFn))

DeleteResourceSubscription(deviceId, resourcePath) ==
    Call(Request(NextCaller, "deleteResourceSubscription", deviceId,
                 normalizePath(resourcePath), NoFn))

\* A notify function that was recorded for (deviceId, resourcePath) and has
\* since been replaced by another one, or deleted.
Retiree(request, fn, by) ==
    [deviceId |-> request.deviceId, resourcePath |-> request.resourcePath,
     notifyFn |-> fn, by |-> by]

\* `retired` after the handler of a subscription request has run.
Retire(request) ==
    LET key == SubscriptionKey(request.deviceId, request.resourcePath)
        old == IF key \in DOMAIN notifyFns THEN notifyFns[key] ELSE NoFn
        others == { r \in retired : ~(/\ r.deviceId = request.deviceId
                                      /\ r.resourcePath = request.resourcePath
                                      /\ r.notifyFn = request.notifyFn) }
    IN  CASE request.op = "addResourceSubscription" /\ request.notifyFn # NoFn ->
               IF old \notin { NoFn, request.notifyFn }
               THEN others \cup { Retiree(request, old, "replaced") }
               ELSE others
          [] request.op = "deleteResourceSubscription" /\ old # NoFn ->
               retired \cup { Retiree(request, old, "deleted") }
          [] OTHER -> retired

Registers_WithoutHandling(handling, asyncID) == asyncID # ""

\* Whether the completion is stored instead of being invoked.
Registers(handling, asyncID) == handling /\ asyncID # ""

\* done(null, asyncID)
Settled(caller, asyncID) ==
    Effect("done", "done", caller, << >>, << >>,
           IF asyncID = "" THEN Undefined ELSE asyncID, ErrNull, 0)

\* done(error) of apiWrapper, when the HTTP request failed.
Failed(caller, error) ==
    Effect("done", "done", caller, << >>, << >>, Undefined, error, 0)

Transform_SubscribesWhenSettled(request, asyncID, subscriptions) ==
    IF Registers(handleNotifications, asyncID)
    THEN /\ notifyFns' = notifyFns
         /\ asyncFns' = Put(asyncFns, asyncID, request.caller)
         /\ trace' = << >>
    ELSE /\ notifyFns' = subscriptions
         /\ asyncFns' = asyncFns
         /\ trace' = << Settled(request.caller, asyncID) >>

\* The tail every one of the five response handlers shares.
Transform(request, asyncID, subscriptions) ==
    /\ notifyFns' = subscriptions
    /\ IF Registers(handleNotifications, asyncID)
       THEN /\ asyncFns' = Put(asyncFns, asyncID, request.caller)
            /\ trace' = << >>
       ELSE /\ asyncFns' = asyncFns
            /\ trace' = << Settled(request.caller, asyncID) >>

\* apiWrapper: an HTTP error goes to done without the handler being run.
ApiWrapper(request, error, asyncID, subscriptions) ==
    /\ Observed
    /\ request \in requests
    /\ requests' = requests \ { request }
    /\ IF error # NoError
       THEN /\ trace' = << Failed(request.caller, error) >>
            /\ UNCHANGED <<asyncFns, notifyFns>>
       ELSE Transform(request, asyncID, subscriptions)
    /\ invoked' = Invoke(trace')
    /\ answer' = << HttpResponse(request, error, asyncID, NoData) >>
    /\ retired' = IF error = NoError THEN Retire(request) ELSE retired
    /\ UNCHANGED <<batch, handleNotifications, called, webhookGets>>
    /\ UNCHANGED pullVars

GetResourceValueResponse_DecidedAtCall(request, error, asyncID) ==
    /\ request.op = "getResourceValue"
    /\ Observed
    /\ request \in requests
    /\ requests' = requests \ { request }
    /\ IF error # NoError
       THEN /\ trace' = << Failed(request.caller, error) >>
            /\ UNCHANGED <<asyncFns, notifyFns>>
       ELSE /\ notifyFns' = notifyFns
            /\ IF Registers(request.handling, asyncID)
               THEN /\ asyncFns' = Put(asyncFns, asyncID, request.caller)
                    /\ trace' = << >>
               ELSE /\ asyncFns' = asyncFns
                    /\ trace' = << Settled(request.caller, asyncID) >>
    /\ invoked' = Invoke(trace')
    /\ answer' = << HttpResponse(request, error, asyncID, NoData) >>
    /\ retired' = retired
    /\ UNCHANGED <<batch, handleNotifications, called, webhookGets>>
    /\ UNCHANGED pullVars

\* The handler getResourceValue gave apiWrapper.
GetResourceValueResponse(request, error, asyncID) ==
    /\ request.op = "getResourceValue"
    /\ ApiWrapper(request, error, asyncID, notifyFns)

SetResourceValueResponse(request, error, asyncID) ==
    /\ request.op = "setResourceValue"
    /\ ApiWrapper(request, error, asyncID, notifyFns)

ExecuteResourceResponse(request, error, asyncID) ==
    /\ request.op = "executeResource"
    /\ ApiWrapper(request, error, asyncID, notifyFns)

Subscribed_KeepsFirst(fns, request) ==
    LET key == SubscriptionKey(request.deviceId, request.resourcePath)
    IN  IF request.notifyFn # NoFn /\ key \notin DOMAIN fns
        THEN Put(fns, key, request.notifyFn)
        ELSE fns

\* if (notifyFn) this._notifyFns[`${deviceId}/${resourcePath}`] = notifyFn
Subscribed(fns, request) ==
    IF request.notifyFn # NoFn
    THEN Put(fns, SubscriptionKey(request.deviceId, request.resourcePath),
             request.notifyFn)
    ELSE fns

Unsubscribed_Keeps(fns, request) == fns

\* delete this._notifyFns[`${deviceId}/${resourcePath}`]
Unsubscribed(fns, request) ==
    Remove(fns, SubscriptionKey(request.deviceId, request.resourcePath))

AddResourceSubscriptionResponse(request, error, asyncID) ==
    /\ request.op = "addResourceSubscription"
    /\ ApiWrapper(request, error, asyncID, Subscribed(notifyFns, request))

DeleteResourceSubscriptionResponse(request, error, asyncID) ==
    /\ request.op = "deleteResourceSubscription"
    /\ ApiWrapper(request, error, asyncID, Unsubscribed(notifyFns, request))

----------------------------------------------------------------------------
----------------------------------------------------------------------------
(* getWebhook *)

WebhookErrors == { NoError, SDKError("transport", 400), SDKError("transport", 404),
                   SDKError("transport", 500) }

\* WebhookAdapter.map(data)
WebhookAdapterMap(data) == [kind |-> "Webhook", url |-> data.url, headers |-> data.headers]

WebhookRequest == Request(NoCaller, "getWebhook", << >>, << >>, NoFn)

\* done(error, webhook) of getWebhook
WebhookDone(error, webhook) ==
    [Effect("done", "getWebhook", NoCaller, << >>, << >>, Undefined, error, 0)
        EXCEPT !.webhook = webhook]

IsNotFound_AnyClientError(error) == error.code >= 400 /\ error.code < 500

IsNotFound(error) == error.code = 404

\* The callback of v2NotificationCallbackGet.
GetWebhookResult(error, data) ==
    IF error # NoError
    THEN IF IsNotFound(error)
         THEN WebhookDone(ErrNull, NoWebhook)
         ELSE WebhookDone(error, NoWebhook)
    ELSE WebhookDone(ErrNull, WebhookAdapterMap(data))

GetWebhook ==
    /\ Observed
    /\ webhookGets < MaxWebhookGets
    /\ webhookGets' = webhookGets + 1
    /\ UNCHANGED <<handleNotifications, asyncFns, notifyFns, requests, called,
                   invoked, batch, answer, trace, retired>>
    /\ UNCHANGED pullVars

GetWebhookResponse(error, data) ==
    /\ Observed
    /\ webhookGets > 0
    /\ webhookGets' = webhookGets - 1
    /\ trace' = << GetWebhookResult(error, data) >>
    /\ answer' = << HttpResponse(WebhookRequest, error, "", data) >>
    /\ UNCHANGED <<handleNotifications, asyncFns, notifyFns, requests, called,
                   invoked, batch, retired>>
    /\ UNCHANGED pullVars

----------------------------------------------------------------------------
(* notify() when the completions it invokes act themselves *)

\* What a completion, the caller's own function, does when notify() invokes
\* it: it returns, it throws, or it calls notify() with the batch being
\* dispatched (once: it returns when invoked from inside that call).
Behaviours == {"returns", "throws", "notifies"}

\* data["async-responses"].forEach from element i on: fn is invoked while its
\* entry is still in the map, and the entry is deleted once fn has returned.
\* [fns, calls, thrown]: the pending map afterwards, the invocations in order,
\* and whether the loop ended by an exception.
RECURSIVE DispatchAsync(_, _, _, _, _)
DispatchAsync(fns, data, i, behave, nested) ==
    IF i > Len(data.asyncResponses)
    THEN [fns |-> fns, calls |-> << >>, thrown |-> FALSE]
    ELSE
      LET response == data.asyncResponses[i]
          asyncID == response.id
      IN  IF asyncID \notin DOMAIN fns
          THEN DispatchAsync(fns, data, i + 1, behave, nested)
          ELSE
            LET fn == fns[asyncID]
                call == AsyncCall(fn, response, i)
                does == IF nested /\ behave[fn] = "notifies"
                        THEN "returns" ELSE behave[fn]
                inner == IF does = "notifies"
                         THEN DispatchAsync(fns, data, 1, behave, TRUE)
                         ELSE [fns |-> fns, calls |-> << >>, thrown |-> FALSE]
            IN  IF does = "throws" \/ inner.thrown
                THEN [fns |-> inner.fns, calls |-> << call >> \o inner.calls,
                      thrown |-> TRUE]
                ELSE
                  LET rest == DispatchAsync(AsyncAfterCall(inner.fns, asyncID),
                                            data, i + 1, behave, nested)
                  IN  [fns |-> rest.fns,
                       calls |-> << call >> \o inner.calls \o rest.calls,
                       thrown |-> rest.thrown]

\* The exception a completion threw, leaving notify().
Thrown ==
    Effect("throw", "notify", NoCaller, << >>, << >>, Undefined, ErrNull, 0)

\* notify(data) with completions that behave as `behave` says.
NotifyWithCallbacks(data, behave) ==
    /\ Observed
    /\ LET res == DispatchAsync(asyncFns, data, 1, behave, FALSE)
       IN  /\ asyncFns' = res.fns
           /\ trace' = res.calls \o (IF res.thrown THEN << Thrown >> ELSE << >>)
           /\ invoked' = Invoke(res.calls)
    /\ \A c \in Callers : invoked'[c] <= MaxInvocations
    /\ batch' = << data >>
    /\ answer' = << >>
    /\ UNCHANGED <<handleNotifications, notifyFns, requests, called, webhookGets, retired>>
    /\ UNCHANGED pullVars

----------------------------------------------------------------------------
(* deleteWebhook and updateWebhook *)

\* A request the handler issued, on behalf of poll cycle l if any; a webhook
\* PUT carries its body.
Issued(name, l) ==
    Effect("request", name, l, << >>, << >>, Undefined, ErrNull, 0)
IssuedPut(body) ==
    [Issued("v2NotificationCallbackPut", NoCaller) EXCEPT !.webhook = body]

\* done(error, null) of operation op.
Done(op, l, error) ==
    Effect("done", op, l, << >>, << >>, NullBody, error, 0)

\* The HTTP response a handler of operation op received.
Answered(op, l, error) ==
    HttpResponse(Request(l, op, << >>, << >>, NoFn), error, "", NoData)

\* What the backend answers to a delete or a put.
BackendErrors ==
    { NoError, SDKError("not found", 404), SDKError("transport", 500) }

\* The callback of v2NotificationCallbackDelete takes no argument.
DeleteWebhookResult(error) == Done("deleteWebhook", NoCaller, ErrNull)

DeleteWebhook ==
    /\ webhookDeletes < MaxWebhookDeletes
    /\ webhookDeletes' = webhookDeletes + 1
    /\ trace' = << Issued("v2NotificationCallbackDelete", NoCaller) >>
    /\ batch' = << >>
    /\ answer' = << >>
    /\ UNCHANGED <<handleNotifications, asyncFns, notifyFns, requests, called,
                   invoked, webhookGets, retired>>
    /\ UNCHANGED <<pollLoops, pollRequest, stops, updates, backendWebhook, stopped>>

DeleteWebhookResponse(error) ==
    /\ webhookDeletes > 0
    /\ webhookDeletes' = webhookDeletes - 1
    /\ backendWebhook' = IF error = NoError THEN NoWebhook ELSE backendWebhook
    /\ trace' = << DeleteWebhookResult(error) >>
    /\ batch' = << >>
    /\ answer' = << Answered("deleteWebhook", NoCaller, error) >>
    /\ UNCHANGED <<handleNotifications, asyncFns, notifyFns, requests, called,
                   invoked, webhookGets, retired>>
    /\ UNCHANGED <<pollLoops, pollRequest, stops, updates, stopped>>

PutBody_KeepsHeaders(url, headers, registered) ==
    [kind |-> "Webhook", url |-> url,
     headers |-> IF headers = "" THEN registered.headers ELSE headers]

\* { url: url, headers: headers }
PutBody(url, headers, registered) ==
    [kind |-> "Webhook", url |-> url, headers |-> headers]

\* updateWebhook(url, headers): the delete of the pull channel is requested.
UpdateWebhook(url, headers) ==
    /\ Cardinality(updates) < MaxUpdates
    /\ updates' = updates \cup { [url |-> url, headers |-> headers,
                                  stage |-> "pullDelete"] }
    /\ trace' = << Issued("v2NotificationPullDelete", NoCaller) >>
    /\ batch' = << >>
    /\ answer' = << >>
    /\ UNCHANGED <<handleNotifications, asyncFns, notifyFns, requests, called,
                   invoked, webhookGets, retired>>
    /\ UNCHANGED <<pollLoops, pollRequest, stops, webhookDeletes, backendWebhook,
                   stopped>>

UpdatePullDeleted_StopsPolling(u, error) ==
    /\ u \in updates
    /\ u.stage = "pullDelete"
    /\ updates' = (updates \ {u}) \cup { [u EXCEPT !.stage = "put"] }
    /\ trace' = << IssuedPut(PutBody(u.url, u.headers, backendWebhook)) >>
    /\ batch' = << >>
    /\ answer' = << Answered("updateWebhook", NoCaller, error) >>
    /\ handleNotifications' = FALSE
    /\ UNCHANGED <<asyncFns, notifyFns, requests, called,
                   invoked, webhookGets, retired>>
    /\ UNCHANGED <<pollLoops, pollRequest, stops, webhookDeletes, backendWebhook,
                   stopped>>

\* The callback of v2NotificationPullDelete, which takes no argument: the PUT.
UpdatePullDeleted(u, error) ==
    /\ u \in updates
    /\ u.stage = "pullDelete"
    /\ updates' = (updates \ {u}) \cup { [u EXCEPT !.stage = "put"] }
    /\ trace' = << IssuedPut(PutBody(u.url, u.headers, backendWebhook)) >>
    /\ batch' = << >>
    /\ answer' = << Answered("updateWebhook", NoCaller, error) >>
    /\ UNCHANGED <<handleNotifications, asyncFns, notifyFns, requests, called,
                   invoked, webhookGets, retired>>
    /\ UNCHANGED <<pollLoops, pollRequest, stops, webhookDeletes, backendWebhook,
                   stopped>>

\* if (error) return done(error); done(null, null)
UpdateResult(error) ==
    IF error # NoError THEN Done("updateWebhook", NoCaller, error)
    ELSE Done("updateWebhook", NoCaller, ErrNull)

\* The callback of v2NotificationCallbackPut; the backend registers the body
\* of a PUT it answers without error.
UpdatePutResponse(u, error) ==
    /\ u \in updates
    /\ u.stage = "put"
    /\ updates' = updates \ {u}
    /\ backendWebhook' = IF error = NoError
                         THEN PutBody(u.url, u.headers, backendWebhook)
                         ELSE backendWebhook
    /\ trace' = << UpdateResult(error) >>
    /\ batch' = << >>
    /\ answer' = << Answered("v2NotificationCallbackPut", NoCaller, error) >>
    /\ UNCHANGED <<handleNotifications, asyncFns, notifyFns, requests, called,
                   invoked, webhookGets, retired>>
    /\ UNCHANGED <<pollLoops, pollRequest, stops, webhookDeletes, stopped>>

----------------------------------------------------------------------------
(* startNotifications, its poll cycle, stopNotifications *)

\* { "async-responses": [] }
EmptyAsyncBatch == [NullData EXCEPT !.isNull = FALSE, !.asyncPresent = TRUE]

\* The batches a fetch is answered with; NullData when the response has none.
PullBatches ==
    { b \in Batches :
        Len(b.notifications) + Len(b.registrations) + Len(b.regUpdates)
        + Len(b.deRegistrations) + Len(b.registrationsExpired)
        + Len(b.asyncResponses) <= 1 }
    \cup { EmptyAsyncBatch }

\* The calls of startNotifications not yet made, by position in StartOrder.
Unstarted == { i \in 1..Len(StartOrder) : ~ pollLoops[StartOrder[i]].started }
NextStart == StartOrder[CHOOSE i \in Unstarted : \A j \in Unstarted : i <= j]

Started_PollsAtOnce(requestCallback) ==
    [started |-> TRUE, requestCallback |-> requestCallback,
     precondition |-> 1, fetches |-> 1, timers |-> 0, overlaps |-> FALSE]

\* A poll cycle once startNotifications has called this.deleteWebhook(...).
Started(requestCallback) ==
    [started |-> TRUE, requestCallback |-> requestCallback,
     precondition |-> 1, fetches |-> 0, timers |-> 0, overlaps |-> FALSE]

\* The cycles with a fetch in flight or a timer pending.
Alive == { l \in Starts : pollLoops[l].fetches + pollLoops[l].timers > 0 }

\* startNotifications(options): options.requestCallback given or not.
\* `overlaps` records whether an earlier cycle was running at the call.
StartNotifications(requestCallback) ==
    /\ Unstarted # {}
    /\ pollLoops' = [pollLoops EXCEPT
                       ![NextStart] = [Started(requestCallback) EXCEPT
                                          !.overlaps = (Alive # {})]]
    /\ trace' = << Issued("v2NotificationCallbackDelete", NextStart) >>
    /\ batch' = << >>
    /\ answer' = << >>
    /\ UNCHANGED <<handleNotifications, asyncFns, notifyFns, requests, called,
                   invoked, webhookGets, retired>>
    /\ UNCHANGED <<pollRequest, stops, updates, webhookDeletes, backendWebhook,
                   stopped>>

\* poll(): this._pollRequest = v2NotificationPullGet(...)
Polled(loop) == [loop EXCEPT !.fetches = @ + 1]

\* this.handleNotifications = true
Assigned(l) ==
    Effect("assign", "handleNotifications", l, << >>, << >>, "true", ErrNull, 0)

StartCallback_SignalsFirst(l, error) ==
    << Done("startNotifications", l, error),
       Issued("v2NotificationPullGet", l), Assigned(l) >>

\* poll.call(this); this.handleNotifications = true; done(null, null)
StartCallback(l, error) ==
    << Issued("v2NotificationPullGet", l), Assigned(l),
       Done("startNotifications", l, ErrNull) >>

\* The callback startNotifications gave deleteWebhook: poll.call(this),
\* handleNotifications = true, done(null, null).
StartPreconditionResponse(l, error) ==
    /\ pollLoops[l].precondition > 0
    /\ pollLoops' = [pollLoops EXCEPT
                       ![l] = Polled([@ EXCEPT !.precondition = @ - 1])]
    /\ pollRequest' = l
    /\ handleNotifications' = TRUE
    /\ backendWebhook' = IF error = NoError THEN NoWebhook ELSE backendWebhook
    /\ trace' = StartCallback(l, error)
    /\ batch' = << >>
    /\ answer' = << Answered("deleteWebhook", l, error) >>
    /\ UNCHANGED <<asyncFns, notifyFns, requests, called, invoked, webhookGets,
                   retired>>
    /\ UNCHANGED <<stops, updates, webhookDeletes, stopped>>

\* data["async-responses"] of a null data: a TypeError leaves the callback.
TypeError(l) ==
    Effect("throw", "TypeError", l, << >>, << >>, Undefined, ErrNull, 0)

\* requestCallback(error, data["async-responses"])
RequestCallback(l, error, data) ==
    [Effect("requestCallback", "requestCallback", l, << >>, << >>, Undefined,
            error, 0)
        EXCEPT !.responses = data.asyncResponses]

\* requestCallback && data["async-responses"]
SideCallback(requestCallback, data) == requestCallback /\ data.asyncPresent

PollContinues_OnlyWithBatch(error, data) ==
    error = NoError /\ data.asyncResponses # << >>

\* if (error) { this.handleNotifications = false; return; } setTimeout(...)
PollContinues(error, data) == error = NoError

Rescheduled_AndPolled(loop) ==
    [loop EXCEPT !.timers = @ + 1, !.fetches = @ + 1]

\* setTimeout(poll.bind(this), interval || 500)
Rescheduled(loop) == [loop EXCEPT !.timers = @ + 1]

PollResult_IgnoresFlag(loop, l, handling, error, data, nfns, afns) ==
    IF FALSE
    THEN [loop |-> loop, fns |-> afns, trace |-> << >>, handling |-> handling,
          notified |-> FALSE]
    ELSE
      LET res == NotifyResult(data, nfns, afns)
      IN  IF loop.requestCallback /\ data.isNull
          THEN [loop |-> loop, fns |-> res.fns,
                trace |-> res.trace \o << TypeError(l) >>,
                handling |-> handling, notified |-> TRUE]
          ELSE
            LET side == IF SideCallback(loop.requestCallback, data)
                        THEN << RequestCallback(l, error, data) >>
                        ELSE << >>
            IN  IF PollContinues(error, data)
                THEN [loop |-> Rescheduled(loop), fns |-> res.fns,
                      trace |-> res.trace \o side, handling |-> handling,
                      notified |-> TRUE]
                ELSE [loop |-> loop, fns |-> res.fns,
                      trace |-> res.trace \o side, handling |-> FALSE,
                      notified |-> TRUE]

\* The callback of v2NotificationPullGet for a cycle `loop` whose fetch was
\* answered (error, data): [loop, fns, trace, handling, notified].
PollResult(loop, l, handling, error, data, nfns, afns) ==
    IF ~ handling
    THEN [loop |-> loop, fns |-> afns, trace |-> << >>, handling |-> handling,
          notified |-> FALSE]
    ELSE
      LET res == NotifyResult(data, nfns, afns)
      IN  IF loop.requestCallback /\ data.isNull
          THEN [loop |-> loop, fns |-> res.fns,
                trace |-> res.trace \o << TypeError(l) >>,
                handling |-> handling, notified |-> TRUE]
          ELSE
            LET side == IF SideCallback(loop.requestCallback, data)
                        THEN << RequestCallback(l, error, data) >>
                        ELSE << >>
            IN  IF PollContinues(error, data)
                THEN [loop |-> Rescheduled(loop), fns |-> res.fns,
                      trace |-> res.trace \o side, handling |-> handling,
                      notified |-> TRUE]
                ELSE [loop |-> loop, fns |-> res.fns,
                      trace |-> res.trace \o side, handling |-> FALSE,
                      notified |-> TRUE]

\* A fetch of cycle l is answered; a response without error carries a batch.
FetchResponse(l, error, data) ==
    /\ pollLoops[l].fetches > 0
    /\ error = NoError => ~ data.isNull
    /\ LET res == PollResult([pollLoops[l] EXCEPT !.fetches = @ - 1], l,
                             handleNotifications, error, data, notifyFns, asyncFns)
       IN  /\ pollLoops' = [pollLoops EXCEPT ![l] = res.loop]
           /\ asyncFns' = res.fns
           /\ trace' = res.trace
           /\ invoked' = Invoke(res.trace)
           /\ handleNotifications' = res.handling
           /\ batch' = IF res.notified THEN << data >> ELSE << >>
    /\ answer' = << Answered("v2NotificationPullGet", l, error) >>
    /\ UNCHANGED <<notifyFns, requests, called, webhookGets, retired>>
    /\ UNCHANGED <<pollRequest, stops, updates, webhookDeletes, backendWebhook,
                   stopped>>

\* The timer of cycle l fires: poll().
TimerFires(l) ==
    /\ pollLoops[l].timers > 0
    /\ pollLoops' = [pollLoops EXCEPT ![l] = Polled([@ EXCEPT !.timers = @ - 1])]
    /\ pollRequest' = l
    /\ trace' = << Issued("v2NotificationPullGet", l) >>
    /\ batch' = << >>
    /\ answer' = << >>
    /\ UNCHANGED <<handleNotifications, asyncFns, notifyFns, requests, called,
                   invoked, webhookGets, retired>>
    /\ UNCHANGED <<stops, updates, webhookDeletes, backendWebhook, stopped>>

StopNotifications_ClearsAtCall ==
    /\ stops < MaxStops
    /\ stops' = stops + 1
    /\ handleNotifications' = FALSE
    /\ trace' = << Issued("v2NotificationPullDelete", NoCaller) >>
    /\ batch' = << >>
    /\ answer' = << >>
    /\ UNCHANGED <<asyncFns, notifyFns, requests, called,
                   invoked, webhookGets, retired>>
    /\ UNCHANGED <<pollLoops, pollRequest, updates, webhookDeletes,
                   backendWebhook, stopped>>

\* stopNotifications(): the delete of the pull channel is requested.
StopNotifications ==
    /\ stops < MaxStops
    /\ stops' = stops + 1
    /\ trace' = << Issued("v2NotificationPullDelete", NoCaller) >>
    /\ batch' = << >>
    /\ answer' = << >>
    /\ UNCHANGED <<handleNotifications, asyncFns, notifyFns, requests, called,
                   invoked, webhookGets, retired>>
    /\ UNCHANGED <<pollLoops, pollRequest, updates, webhookDeletes,
                   backendWebhook, stopped>>

\* this._pollRequest.abort(): the fetch the field holds, if still in flight,
\* is never answered.
Aborted(loops, request) ==
    IF request # NoRequest /\ loops[request].fetches > 0
    THEN [loops EXCEPT ![request].fetches = @ - 1]
    ELSE loops

StopResult_ReportsError(error) == Done("stopNotifications", NoCaller, error)

\* The callback of v2NotificationPullDelete takes no argument.
StopResult(error) == Done("stopNotifications", NoCaller, ErrNull)

StopResponse_ClearsPending(error) ==
    /\ stops > 0
    /\ stops' = stops - 1
    /\ pollLoops' = Aborted(pollLoops, pollRequest)
    /\ pollRequest' = NoRequest
    /\ handleNotifications' = FALSE
    /\ stopped' = stopped \cup Alive
    /\ trace' = << StopResult(error) >>
    /\ batch' = << >>
    /\ answer' = << Answered("stopNotifications", NoCaller, error) >>
    /\ asyncFns' = EmptyMap
    /\ UNCHANGED <<notifyFns, requests, called, invoked, webhookGets, retired>>
    /\ UNCHANGED <<updates, webhookDeletes, backendWebhook>>

\* The callback stopNotifications gave v2NotificationPullDelete.
StopResponse(error) ==
    /\ stops > 0
    /\ stops' = stops - 1
    /\ pollLoops' = Aborted(pollLoops, pollRequest)
    /\ pollRequest' = NoRequest
    /\ handleNotifications' = FALSE
    /\ stopped' = stopped \cup Alive
    /\ trace' = << StopResult(error) >>
    /\ batch' = << >>
    /\ answer' = << Answered("stopNotifications", NoCaller, error) >>
    /\ UNCHANGED <<asyncFns, notifyFns, requests, called, invoked, webhookGets,
                   retired>>
    /\ UNCHANGED <<updates, webhookDeletes, backendWebhook>>

----------------------------------------------------------------------------
Operations(paths, fns) ==
    \/ Observe
    \/ \E value \in BOOLEAN : SetHandleNotifications(value)
    \/ \E d \in Devices, p \in paths : GetResourceValue(d, p)
    \/ \E d \in Devices, p \in paths : SetResourceValue(d, p)
    \/ \E d \in Devices, p \in paths : ExecuteResource(d, p)
    \/ \E d \in Devices, p \in paths, fn \in fns \cup {NoFn} :
          AddResourceSubscription(d, p, fn)
    \/ \E d \in Devices, p \in paths : DeleteResourceSubscription(d, p)
    \/ \E r \in requests, e \in TransportErrors, id \in AsyncIds \cup {""} :
          GetResourceValueResponse(r, e, id)
    \/ \E r \in requests, e \in TransportErrors, id \in AsyncIds \cup {""} :
          SetResourceValueResponse(r, e, id)
    \/ \E r \in requests, e \in TransportErrors, id \in AsyncIds \cup {""} :
          ExecuteResourceResponse(r, e, id)
    \/ \E r \in requests, e \in TransportErrors, id \in AsyncIds \cup {""} :
          AddResourceSubscriptionResponse(r, e, id)
    \/ \E r \in requests, e \in TransportErrors, id \in AsyncIds \cup {""} :
          DeleteResourceSubscriptionResponse(r, e, id)

\* The one notify function, and the one spelling of a path, of the
\* specifications that are not about subscriptions.
OneFunction == { "f" }
PlainPath == { <<"a">> }

\* Batches of async responses and the null batch.
Next ==
    \/ \E data \in AsyncBatches \cup {NullData} : Notify(data)
    \/ Operations(PlainPath, OneFunction)

Spec == Init /\ [][Next]_vars

\* Batches over all six fields.
NextOrder ==
    \/ \E data \in Batches : Notify(data)
    \/ Operations(OnePath, OneFunction)

SpecOrder == Init /\ [][NextOrder]_vars

\* Batches of resource notifications, several resource paths.
NextSubscriptions ==
    \/ \E data \in NotificationBatches \cup {NullData} : Notify(data)
    \/ Operations(ResourcePaths, NotifyFunctions)

SpecSubscriptions == Init /\ [][NextSubscriptions]_vars

\* The webhook registry beside the resource operations.
NextWebhook ==
    \/ GetWebhook
    \/ \E e \in WebhookErrors, data \in RawWebhooks : GetWebhookResponse(e, data)
    \/ Operations(PlainPath, OneFunction)

SpecWebhook == Init /\ [][NextWebhook]_vars

\* Batches of async responses, completions that return, throw or call notify().
NextCallbacks ==
    \/ \E data \in AsyncBatches, behave \in [Callers -> Behaviours] :
          NotifyWithCallbacks(data, behave)
    \/ Operations(PlainPath, OneFunction)

SpecCallbacks == Init /\ [][NextCallbacks]_vars

\* The webhook registry: deleteWebhook and updateWebhook.
NextRegistry ==
    \/ DeleteWebhook
    \/ \E e \in BackendErrors : DeleteWebhookResponse(e)
    \/ \E w \in RawWebhooks : UpdateWebhook(w.url, w.headers)
    \/ \E u \in updates, e \in BackendErrors : UpdatePullDeleted(u, e)
    \/ \E u \in updates, e \in BackendErrors : UpdatePutResponse(u, e)

SpecRegistry == Init /\ [][NextRegistry]_vars

\* Pull notifications: startNotifications, its poll cycles, stopNotifications.
NextPull ==
    \/ \E requestCallback \in BOOLEAN : StartNotifications(requestCallback)
    \/ \E l \in Starts, e \in BackendErrors : StartPreconditionResponse(l, e)
    \/ \E l \in Starts, e \in TransportErrors, data \in PullBatches \cup {NullData} :
          FetchResponse(l, e, data)
    \/ \E l \in Starts : TimerFires(l)
    \/ StopNotifications
    \/ \E e \in TransportErrors : StopResponse(e)

SpecPull == Init /\ [][NextPull]_vars

\* Timers that are set fire.
FairSpecPull == SpecPull /\ \A l \in Starts : WF_vars(TimerFires(l))

\* updateWebhook beside one poll cycle.
OneWebhook == { w \in RawWebhooks : w.url = "u" /\ w.headers = "h" }
FirstStart(requestCallback) ==
    /\ ~ pollLoops[StartOrder[1]].started
    /\ StartNotifications(requestCallback)

NextPullWebhook ==
    \/ \E requestCallback \in BOOLEAN : FirstStart(requestCallback)
    \/ \E l \in Starts, e \in BackendErrors : StartPreconditionResponse(l, e)
    \/ \E l \in Starts, e \in TransportErrors, data \in PullBatches \cup {NullData} :
          FetchResponse(l, e, data)
    \/ \E l \in Starts : TimerFires(l)
    \/ StopNotifications
    \/ \E e \in TransportErrors : StopResponse(e)
    \/ \E w \in OneWebhook : UpdateWebhook(w.url, w.headers)
    \/ \E u \in updates, e \in BackendErrors : UpdatePullDeleted(u, e)
    \/ \E u \in updates, e \in BackendErrors : UpdatePutResponse(u, e)

SpecPullWebhook == Init /\ [][NextPullWebhook]_vars

FairSpecPullWebhook ==
    SpecPullWebhook /\ \A l \in Starts : WF_vars(TimerFires(l))

\* The two subscription operations and notify() with batches of one resource
\* notification or one async response of either status.
LifecycleBatches ==
    { b \in AsyncBatches \cup NotificationBatches :
         Len(b.notifications) + Len(b.asyncResponses) <= 1 }

NextLifecycles ==
    \/ Observe
    \/ \E value \in BOOLEAN : SetHandleNotifications(value)
    \/ \E d \in Devices, p \in PlainPath, fn \in OneFunction \cup {NoFn} :
          AddResourceSubscription(d, p, fn)
    \/ \E d \in Devices, p \in PlainPath : DeleteResourceSubscription(d, p)
    \/ \E r \in requests, e \in TransportErrors, id \in AsyncIds \cup {""} :
          AddResourceSubscriptionResponse(r, e, id)
    \/ \E r \in requests, e \in TransportErrors, id \in AsyncIds \cup {""} :
          DeleteResourceSubscriptionResponse(r, e, id)
    \/ \E data \in LifecycleBatches : Notify(data)

SpecLifecycles == Init /\ [][NextLifecycles]_vars

\* One resource operation beside one poll cycle, notify() and the webhook
\* registry.
\* The request remembers the value the flag had when the operation was
\* called; no handler reads it.
WhenCalled(request, handling) ==
    [caller |-> request.caller, op |-> request.op, deviceId |-> request.deviceId,
     resourcePath |-> request.resourcePath, notifyFn |-> request.notifyFn,
     handling |-> handling]

FirstCall(deviceId, resourcePath) ==
    /\ called = {}
    /\ Call(WhenCalled(Request(NextCaller, "getResourceValue", << >>, << >>, NoFn),
                       handleNotifications))

\* Batches of one async response or one registration, the empty batches and
\* the null batch.
CoordinatorBatches ==
    { b \in PullBatches :
        /\ b.notifications = << >> /\ b.regUpdates = << >>
        /\ b.deRegistrations = << >> /\ b.registrationsExpired = << >> }
    \cup { NullData }

NextCoordinator ==
    \/ Observe
    \/ \E d \in Devices, p \in PlainPath : FirstCall(d, p)
    \/ \E r \in requests, e \in TransportErrors, id \in AsyncIds \cup {""} :
          GetResourceValueResponse(r, e, id)
    \/ \E data \in CoordinatorBatches : Notify(data)
    \/ \E requestCallback \in BOOLEAN : FirstStart(requestCallback)
    \/ \E l \in Starts, e \in BackendErrors : StartPreconditionResponse(l, e)
    \/ \E l \in Starts, e \in TransportErrors, data \in CoordinatorBatches :
          FetchResponse(l, e, data)
    \/ \E l \in Starts : TimerFires(l)
    \/ StopNotifications
    \/ \E e \in TransportErrors : StopResponse(e)
    \/ GetWebhook
    \/ \E e \in WebhookErrors, data \in OneWebhook : GetWebhookResponse(e, data)
    \/ \E w \in OneWebhook : UpdateWebhook(w.url, w.headers)
    \/ \E u \in updates, e \in BackendErrors : UpdatePullDeleted(u, e)
    \/ \E u \in updates, e \in BackendErrors : UpdatePutResponse(u, e)
    \/ DeleteWebhook
    \/ \E e \in BackendErrors : DeleteWebhookResponse(e)

SpecCoordinator == Init /\ [][NextCoordinator]_vars

----------------------------------------------------------------------------
(* Claims *)

\* A step that is a call of notify(), and one that handles an HTTP response.
NotifyStep == batch = << >> /\ batch' # << >>
AnswerStep == answer = << >> /\ answer' # << >>

ResourceOps ==
    { "getResourceValue", "setResourceValue", "executeResource",
      "addResourceSubscription", "deleteResourceSubscription" }


\* The invocations, in trace t, of the completion of `caller` by notify().
AsyncCallsOf(t, caller) ==
    { k \in 1..Len(t) : t[k].kind = "asyncFn" /\ t[k].caller = caller }

AsyncIdsIn(data) ==
    { data.asyncResponses[i].id : i \in 1..Len(data.asyncResponses) }

\* C1: a completion is invoked at most once over a whole behaviour; and a
\* call of notify() whose batch carries, once or several times, an id that is
\* pending when the call starts invokes the completion stored under that id
\* exactly once and leaves the id out of the pending map.
C1_AtMostOnce ==
    [][ /\ \A c \in Callers : invoked'[c] <= 1
        /\ NotifyStep =>
             \A x \in (DOMAIN asyncFns) \cap AsyncIdsIn(batch'[1]) :
                /\ Cardinality(AsyncCallsOf(trace', asyncFns[x])) = 1
                /\ x \notin DOMAIN asyncFns' ]_vars

\* C1 witness: a batch carrying the same id twice has been dispatched and a
\* completion was invoked for it.
C1_Witness ==
    /\ batch # << >>
    /\ Len(batch[1].asyncResponses) = 2
    /\ batch[1].asyncResponses[1].id = batch[1].asyncResponses[2].id
    /\ \E k \in 1..Len(trace) : trace[k].kind = "asyncFn"

\* C2: an async response whose id has no pending entry causes no invocation,
\* and a batch all of whose async responses are unmatched leaves the pending
\* map, the subscription map and every completion untouched, and emits
\* nothing beyond the one event of each of its other elements.
C2_UnmatchedIsDropped ==
    [][ NotifyStep =>
          LET data == batch'[1]
              rs == data.asyncResponses
              unmatched == { i \in 1..Len(rs) : rs[i].id \notin DOMAIN asyncFns }
              emits == { k \in 1..Len(trace') : trace'[k].kind = "emit" }
          IN  /\ \A i \in unmatched :
                    ~ \E k \in 1..Len(trace') :
                          trace'[k].kind = "asyncFn" /\ trace'[k].idx = i
              /\ unmatched = 1..Len(rs) =>
                    /\ asyncFns' = asyncFns
                    /\ notifyFns' = notifyFns
                    /\ invoked' = invoked
                    /\ \A k \in 1..Len(trace') :
                          /\ trace'[k].kind \in { "emit", "notifyFn" }
                          /\ trace'[k].err = ErrNull
                    /\ Cardinality(emits) =
                          Len(data.notifications) + Len(data.registrations)
                          + Len(data.regUpdates) + Len(data.deRegistrations)
                          + Len(data.registrationsExpired) ]_vars

\* C2 witness: a batch of nothing but an async response was dispatched while
\* another id was pending, and nothing happened.
C2_Witness ==
    /\ batch # << >>
    /\ Len(batch[1].asyncResponses) = 1
    /\ trace = << >>
    /\ DOMAIN asyncFns # {}
    /\ batch[1].asyncResponses[1].id \notin DOMAIN asyncFns

\* C3: the completion of a matched async response receives (error, null),
\* the error carrying the response's status, exactly when status >= 400, and
\* (null, decoded payload) otherwise, null standing for an absent payload.
C3_StatusBoundary ==
    batch # << >> =>
      \A k \in 1..Len(trace) :
         trace[k].kind = "asyncFn" =>
            LET r == batch[1].asyncResponses[trace[k].idx]
            IN  IF r.status >= 400
                THEN /\ trace[k].err.kind = "SDKError"
                     /\ trace[k].err.code = r.status
                     /\ trace[k].body = NullBody
                ELSE /\ trace[k].err = ErrNull
                     /\ trace[k].body =
                          (IF r.payload = "" THEN NullBody ELSE Base64Text(r.payload))

\* C3 witness: one batch resolved one completion with status 399 and a
\* payload, and another with status 400.
C3_Witness ==
    /\ batch # << >>
    /\ \E k, l \in 1..Len(trace) :
          /\ trace[k].kind = "asyncFn" /\ trace[l].kind = "asyncFn"
          /\ batch[1].asyncResponses[trace[k].idx].status = 399
          /\ batch[1].asyncResponses[trace[k].idx].payload # ""
          /\ trace[k].err = ErrNull
          /\ batch[1].asyncResponses[trace[l].idx].status = 400
          /\ trace[l].err.code = 400

\* C4: when the HTTP request of one of the five operations succeeds, its
\* completion is stored under the asyncId and not invoked if handling is
\* active and the response carries an asyncId, and is otherwise invoked at
\* once with (null, asyncId), the pending map staying as it was; a stored
\* completion is invoked by nothing but a notify() whose batch carries its id.
C4_RegisterOrSettle ==
    [][ /\ AnswerStep /\ answer'[1].request.op \in ResourceOps
           /\ answer'[1].error = NoError =>
             LET a == answer'[1]
                 c == a.request.caller
             IN  IF handleNotifications /\ a.asyncID # ""
                 THEN /\ asyncFns' = Put(asyncFns, a.asyncID, c)
                      /\ invoked' = invoked
                      /\ trace' = << >>
                 ELSE /\ asyncFns' = asyncFns
                      /\ invoked' = [invoked EXCEPT ![c] = @ + 1]
                      /\ Len(trace') = 1
                      /\ trace'[1].kind = "done" /\ trace'[1].caller = c
                      /\ trace'[1].err = ErrNull
                      /\ trace'[1].body =
                           (IF a.asyncID = "" THEN Undefined ELSE a.asyncID)
        /\ \A x \in DOMAIN asyncFns :
              invoked'[asyncFns[x]] # invoked[asyncFns[x]] =>
                 NotifyStep /\ x \in AsyncIdsIn(batch'[1])
        /\ \A x \in DOMAIN asyncFns' : invoked'[asyncFns'[x]] = 0 ]_vars

\* C4 witness: the completion of a deleteResourceSubscription is pending,
\* and that of another operation was invoked at once with its asyncId.
C4_Witness ==
    /\ answer # << >>
    /\ answer[1].request.op = "deleteResourceSubscription"
    /\ answer[1].error = NoError
    /\ answer[1].asyncID \in DOMAIN asyncFns
    /\ asyncFns[answer[1].asyncID] = answer[1].request.caller
    /\ trace = << >>
    /\ \E c \in Callers : invoked[c] = 1

\* The invocations of notify functions, and the `notification` events, that
\* element i of data.notifications caused in trace t.
NotifyFnCalls(t, i) ==
    { k \in 1..Len(t) : t[k].kind = "notifyFn" /\ t[k].idx = i }
NotificationEvents(t, i) ==
    { k \in 1..Len(t) : t[k].kind = "emit" /\ t[k].name = "notification"
                        /\ t[k].idx = i }

DecodedPayload(payload) ==
    IF payload = "" THEN NullBody ELSE Base64Text(payload)

\* C5: a notification for (d, p), p with or without a leading "/", invokes the
\* notify function recorded for (d, p) exactly once with the decoded payload:
\* notify() looks up the key deviceId + "/" + resourcePath that
\* addResourceSubscription wrote.
C5_SubscriptionDispatch ==
    batch # << >> =>
      \A i \in 1..Len(batch[1].notifications) :
         LET n == batch[1].notifications[i]
             key == SubscriptionKey(n.ep, normalizePath(n.path))
         IN  key \in DOMAIN notifyFns =>
               /\ NotificationKey(n) = key
               /\ Cardinality(NotifyFnCalls(trace, i)) = 1
               /\ \A k \in NotifyFnCalls(trace, i) :
                     /\ trace[k].name = notifyFns[key]
                     /\ trace[k].body = DecodedPayload(n.payload)

\* C5 as the code has it: the notify function recorded for (d, p) is invoked,
\* once and with the decoded payload, exactly for the notifications of d whose
\* path is "/" followed by p; a notification whose path is p itself invokes
\* nothing.
C5_DispatchNeedsLeadingSlash ==
    batch # << >> =>
      \A i \in 1..Len(batch[1].notifications) :
         LET n == batch[1].notifications[i]
             key == SubscriptionKey(n.ep, normalizePath(n.path))
         IN  IF key \in DOMAIN notifyFns /\ Head(n.path) = Slash
             THEN /\ Cardinality(NotifyFnCalls(trace, i)) = 1
                  /\ \A k \in NotifyFnCalls(trace, i) :
                        /\ trace[k].name = notifyFns[key]
                        /\ trace[k].body = DecodedPayload(n.payload)
             ELSE NotifyFnCalls(trace, i) = {}

\* C5 witness: one batch held, for a subscribed pair, a notification with the
\* leading "/" that was dispatched and one without it that was not.
C5_Witness ==
    /\ batch # << >>
    /\ \E i, j \in 1..Len(batch[1].notifications) :
          LET n == batch[1].notifications[i]
              m == batch[1].notifications[j]
          IN  /\ SubscriptionKey(n.ep, normalizePath(n.path)) \in DOMAIN notifyFns
              /\ normalizePath(n.path) = normalizePath(m.path)
              /\ n.ep = m.ep
              /\ Head(n.path) = Slash
              /\ Head(m.path) # Slash
              /\ NotifyFnCalls(trace, i) # {}
              /\ NotifyFnCalls(trace, j) = {}

\* C6: every element of data.notifications causes exactly one `notification`
\* event carrying its device id, its path and its decoded payload, whether or
\* not a notify function is recorded for it, and after the invocation of that
\* function.
C6_NotificationEvent ==
    batch # << >> =>
      LET ns == batch[1].notifications
      IN  /\ \A i \in 1..Len(ns) :
                /\ Cardinality(NotificationEvents(trace, i)) = 1
                /\ \A k \in NotificationEvents(trace, i) :
                      /\ trace[k].dev = ns[i].ep
                      /\ trace[k].path = ns[i].path
                      /\ trace[k].body = DecodedPayload(ns[i].payload)
                      /\ \A j \in NotifyFnCalls(trace, i) : j < k
          /\ Cardinality({ k \in 1..Len(trace) :
                              trace[k].kind = "emit"
                              /\ trace[k].name = "notification" }) = Len(ns)

\* C6 witness: one batch held a notification that a notify function was
\* invoked for and one that none was invoked for.
C6_Witness ==
    /\ batch # << >>
    /\ \E i, j \in 1..Len(batch[1].notifications) :
          /\ NotifyFnCalls(trace, i) # {}
          /\ NotifyFnCalls(trace, j) = {}
          /\ NotificationEvents(trace, i) # {}
          /\ NotificationEvents(trace, j) # {}

\* Whether, in rs, the notify function of effect e was retired in way `by` for the
\* pair (device, resource path) of the notification that caused e.
RetiredFor(rs, e, by) ==
    \E r \in rs :
        /\ r.by = by
        /\ r.deviceId = e.dev
        /\ r.resourcePath = normalizePath(e.path)
        /\ r.notifyFn = e.name

\* C7: once a second notify function has been recorded for a pair, a dispatch
\* for that pair invokes the function recorded last and never the replaced one.
C7_ReplacedNeverInvoked ==
    batch # << >> =>
      \A k \in 1..Len(trace) :
         trace[k].kind = "notifyFn" =>
            LET key == SubscriptionKey(trace[k].dev, normalizePath(trace[k].path))
            IN  /\ ~ RetiredFor(retired, trace[k], "replaced")
                /\ key \in DOMAIN notifyFns
                /\ notifyFns[key] = trace[k].name

\* C7 witness: a notify function was invoked for a pair whose earlier notify
\* function had been replaced.
C7_Witness ==
    /\ batch # << >>
    /\ \E k \in 1..Len(trace) :
          /\ trace[k].kind = "notifyFn"
          /\ \E r \in retired :
                /\ r.by = "replaced"
                /\ r.deviceId = trace[k].dev
                /\ r.resourcePath = normalizePath(trace[k].path)
                /\ r.notifyFn # trace[k].name

\* C8: a successful deleteResourceSubscription(d, p) removes the entry of
\* (d, p) and no other; when (d, p) has no entry the subscription map stays
\* as it is, no error reaches the caller, and the pending map changes only
\* by the caller's own completion being stored; a later notification for
\* (d, p) invokes no deleted function and still emits its event.
C8_DeletedNeverInvoked ==
    [][ /\ AnswerStep /\ answer'[1].request.op = "deleteResourceSubscription"
           /\ answer'[1].error = NoError =>
             LET a == answer'[1]
                 key == SubscriptionKey(a.request.deviceId, a.request.resourcePath)
             IN  /\ notifyFns' = [k \in (DOMAIN notifyFns) \ {key} |-> notifyFns[k]]
                 /\ key \notin DOMAIN notifyFns =>
                       /\ notifyFns' = notifyFns
                       /\ \A k \in 1..Len(trace') : trace'[k].err = ErrNull
                       /\ \/ asyncFns' = asyncFns
                          \/ /\ handleNotifications /\ a.asyncID # ""
                             /\ asyncFns' = Put(asyncFns, a.asyncID, a.request.caller)
        /\ NotifyStep =>
             /\ \A k \in 1..Len(trace') :
                   trace'[k].kind = "notifyFn" => ~ RetiredFor(retired', trace'[k], "deleted")
             /\ \A i \in 1..Len(batch'[1].notifications) :
                   Cardinality(NotificationEvents(trace', i)) = 1 ]_vars

\* C8 witness: a notification whose path begins with "/" arrived for a pair
\* whose notify function had been deleted; its event was emitted and no
\* function was invoked.
C8_Witness ==
    /\ batch # << >>
    /\ \E i \in 1..Len(batch[1].notifications) :
          LET n == batch[1].notifications[i]
          IN  /\ Head(n.path) = Slash
              /\ \E r \in retired :
                    /\ r.by = "deleted"
                    /\ r.deviceId = n.ep
                    /\ r.resourcePath = normalizePath(n.path)
              /\ NotifyFnCalls(trace, i) = {}
              /\ NotificationEvents(trace, i) # {}

\* The place of an effect in the order of the six fields of a batch.
Rank(e) ==
    CASE e.kind = "notifyFn" -> 1
      [] e.kind = "emit" /\ e.name = "notification" -> 1
      [] e.kind = "emit" /\ e.name = "registration" -> 2
      [] e.kind = "emit" /\ e.name = "reregistration" -> 3
      [] e.kind = "emit" /\ e.name = "deregistration" -> 4
      [] e.kind = "emit" /\ e.name = "expired" -> 5
      [] e.kind = "asyncFn" -> 6
      [] OTHER -> 0

EventsNamed(t, name) ==
    { k \in 1..Len(t) : t[k].kind = "emit" /\ t[k].name = name }

\* C9: the effects of one notify() call come in the order notifications,
\* registrations, re-registrations, deregistrations, expirations, async
\* responses, the elements of one field in their sequence order, and every
\* element of the five event fields has its event.
C9_FixedOrder ==
    batch # << >> /\ ~ batch[1].isNull =>
      LET data == batch[1]
      IN  /\ \A k, l \in 1..Len(trace) :
                k < l =>
                   \/ Rank(trace[k]) < Rank(trace[l])
                   \/ /\ Rank(trace[k]) = Rank(trace[l])
                      /\ trace[k].idx <= trace[l].idx
          /\ \A k \in 1..Len(trace) : Rank(trace[k]) > 0
          /\ Cardinality(EventsNamed(trace, "notification")) = Len(data.notifications)
          /\ Cardinality(EventsNamed(trace, "registration")) = Len(data.registrations)
          /\ Cardinality(EventsNamed(trace, "reregistration")) = Len(data.regUpdates)
          /\ Cardinality(EventsNamed(trace, "deregistration")) = Len(data.deRegistrations)
          /\ Cardinality(EventsNamed(trace, "expired")) = Len(data.registrationsExpired)
          /\ \A k \in EventsNamed(trace, "deregistration") :
                trace[k].dev = data.deRegistrations[trace[k].idx]
          /\ \A k \in EventsNamed(trace, "expired") :
                trace[k].dev = data.registrationsExpired[trace[k].idx]

\* C9 witness: one batch held a deregistration and an expiration.
C9_Witness ==
    /\ batch # << >>
    /\ Len(batch[1].deRegistrations) = 1
    /\ Len(batch[1].registrationsExpired) = 1
    /\ Len(trace) = 2
    /\ trace[1].name = "deregistration"
    /\ trace[2].name = "expired"

\* C10: getWebhook gives (null, null) when the backend answers with error code
\* 404, (null, mapped webhook) when it answers without error, and the
\* backend's error itself in every other case.
C10_GetWebhook ==
    answer # << >> /\ answer[1].request.op = "getWebhook" =>
      LET a == answer[1]
      IN  /\ Len(trace) = 1
          /\ trace[1].kind = "done" /\ trace[1].name = "getWebhook"
          /\ a.error = NoError =>
                /\ trace[1].err = ErrNull
                /\ trace[1].webhook =
                     [kind |-> "Webhook", url |-> a.data.url, headers |-> a.data.headers]
          /\ a.error # NoError /\ a.error.code = 404 =>
                /\ trace[1].err = ErrNull
                /\ trace[1].webhook = NoWebhook
          /\ a.error # NoError /\ a.error.code # 404 =>
                /\ trace[1].err = a.error
                /\ trace[1].webhook = NoWebhook

\* C10 witness: the backend answered 404 and getWebhook gave (null, null).
C10_Witness ==
    /\ answer # << >>
    /\ answer[1].request.op = "getWebhook"
    /\ answer[1].error.code = 404
    /\ Len(trace) = 1
    /\ trace[1].err = ErrNull
    /\ trace[1].webhook = NoWebhook

\* C11: deleteWebhook answered 404 by the backend, no webhook being
\* registered, gives that error to its caller.
C11_DeleteWebhookReportsNotFound ==
    answer # << >> /\ answer[1].request.op = "deleteWebhook"
                   /\ answer[1].error.code = 404 =>
        /\ Len(trace) = 1
        /\ trace[1].kind = "done"
        /\ trace[1].name = "deleteWebhook"
        /\ trace[1].err = answer[1].error

\* The requests of one kind that a handler issued, in trace t.
RequestsNamed(t, name) ==
    { k \in 1..Len(t) : t[k].kind = "request" /\ t[k].name = name }

\* Steps of an updateWebhook call u: its pull-channel delete is answered, its
\* PUT is answered.
PullDeleteAnswered(u) ==
    u \in updates /\ u.stage = "pullDelete" /\ u \notin updates'
PutAnswered(u) ==
    u \in updates /\ u.stage = "put" /\ u \notin updates'

\* C12: updateWebhook first requests the delete of the pull channel and
\* nothing else; the PUT, carrying exactly the given url and headers, is
\* issued in the callback of that delete whatever its outcome, and nowhere
\* else; a PUT error goes to the caller, a PUT success gives (null, null) and
\* leaves the backend with exactly the given url and headers.
C12_UpdateWebhook ==
    [][ /\ \A u \in updates' \ updates :
              u.stage = "pullDelete" =>
                 trace' = << Issued("v2NotificationPullDelete", NoCaller) >>
        /\ \A u \in updates :
              PullDeleteAnswered(u) =>
                 trace' = << IssuedPut([kind |-> "Webhook", url |-> u.url,
                                        headers |-> u.headers]) >>
        /\ RequestsNamed(trace', "v2NotificationCallbackPut") # {} =>
              \E u \in updates : PullDeleteAnswered(u)
        /\ \A u \in updates :
              PutAnswered(u) =>
                 IF answer'[1].error # NoError
                 THEN /\ trace' = << Done("updateWebhook", NoCaller, answer'[1].error) >>
                      /\ backendWebhook' = backendWebhook
                 ELSE /\ trace' = << Done("updateWebhook", NoCaller, ErrNull) >>
                      /\ backendWebhook' = [kind |-> "Webhook", url |-> u.url,
                                            headers |-> u.headers] ]_vars

\* C12 witness: a PUT without headers succeeded, and the backend holds a
\* webhook without headers.
C12_Witness ==
    /\ answer # << >>
    /\ answer[1].request.op = "v2NotificationCallbackPut"
    /\ answer[1].error = NoError
    /\ trace = << Done("updateWebhook", NoCaller, ErrNull) >>
    /\ backendWebhook.kind = "Webhook"
    /\ backendWebhook.headers = ""

\* The requests named `name` that a handler issued for poll cycle l.
RequestsFor(t, name, l) ==
    { k \in RequestsNamed(t, name) : t[k].caller = l }

\* A step in which startNotifications is called, for cycle l.
StartStep(l) == ~ pollLoops[l].started /\ pollLoops'[l].started

\* Each call of startNotifications issues one request, named `name`, and
\* nothing else; that request is issued by no other step; no fetch of the
\* cycle is in flight, and no timer pending, before it has been answered; the
\* first fetch is issued in its callback, whatever it was answered with.
StartsWithPrecondition(name) ==
    \A l \in Starts :
       /\ StartStep(l) =>
             /\ trace' = << Issued(name, l) >>
             /\ pollLoops'[l].precondition = 1
       /\ RequestsFor(trace', name, l) # {} => StartStep(l)
       /\ pollLoops'[l].precondition > 0 =>
             pollLoops'[l].fetches = 0 /\ pollLoops'[l].timers = 0
       /\ RequestsFor(trace', "v2NotificationPullGet", l) # {} =>
             pollLoops[l].started /\ pollLoops'[l].precondition = 0
       /\ pollLoops[l].precondition > pollLoops'[l].precondition =>
             /\ RequestsFor(trace', "v2NotificationPullGet", l) # {}
             /\ pollLoops'[l].fetches = 1

\* C13 as stated: the precondition request of startNotifications is the
\* delete of the pull channel.
C13_PreconditionIsPullDelete ==
    [][ StartsWithPrecondition("v2NotificationPullDelete") ]_vars

\* C13 as the code has it: the precondition request of startNotifications is
\* the delete of the webhook (deleteWebhook); exactly one per call, and the
\* first fetch only in its callback, with or without error.
C13_PreconditionIsWebhookDelete ==
    [][ StartsWithPrecondition("v2NotificationCallbackDelete") ]_vars

\* C13 witness: the precondition request of a call was answered with an
\* error and the first fetch of its cycle is in flight.
C13_Witness ==
    \E l \in Starts :
       /\ answer # << >>
       /\ answer[1].request.op = "deleteWebhook"
       /\ answer[1].request.caller = l
       /\ answer[1].error # NoError
       /\ pollLoops[l].fetches = 1
       /\ RequestsFor(trace, "v2NotificationPullGet", l) # {}

\* The state stopNotifications leaves behind when no cycle is running.
StoppedState ==
    Alive = {} /\ ~ handleNotifications /\ pollRequest = NoRequest

\* C14: a call of stopNotifications issues one delete of the pull channel;
\* its callback signals (null, null) whatever the request was answered with
\* and leaves handleNotifications false; with no cycle running the cycles are
\* left as they were, and a stop completed in the state a stop leaves behind
\* changes nothing.
C14_StopIsIdempotent ==
    [][ /\ stops' = stops + 1 =>
              /\ trace' = << Issued("v2NotificationPullDelete", NoCaller) >>
              /\ UNCHANGED <<handleNotifications, pollLoops, pollRequest>>
        /\ stops' = stops - 1 =>
              /\ trace' = << Done("stopNotifications", NoCaller, ErrNull) >>
              /\ ~ handleNotifications'
              /\ pollRequest' = NoRequest
              /\ Alive = {} => pollLoops' = pollLoops /\ StoppedState'
              /\ StoppedState =>
                    UNCHANGED <<handleNotifications, pollLoops, pollRequest>> ]_vars

\* C14 witness: with no call of startNotifications made, a stop was answered
\* with an error and signalled success.
C14_Witness ==
    /\ \A l \in Starts : ~ pollLoops[l].started
    /\ answer # << >>
    /\ answer[1].request.op = "stopNotifications"
    /\ answer[1].error # NoError
    /\ trace = << Done("stopNotifications", NoCaller, ErrNull) >>
    /\ ~ handleNotifications

\* C15: a cycle that was running when a stopNotifications completed issues
\* no fetch afterwards; a timer of it that was pending fires no fetch.
C15_NoFetchAfterStop ==
    [][ \A l \in stopped : pollLoops'[l].fetches <= pollLoops[l].fetches ]_vars

\* C16: within the cycle of one startNotifications call at most one of a
\* fetch in flight and a pending timer exists; after the first, a fetch is
\* issued only by a timer of the cycle firing, and a timer is set only in the
\* callback of a fetch of the cycle.
C16_OneFetchPerCycle ==
    [][ \A l \in Starts :
           /\ pollLoops'[l].fetches + pollLoops'[l].timers <= 1
           /\ pollLoops'[l].fetches > pollLoops[l].fetches =>
                 \/ pollLoops'[l].precondition = pollLoops[l].precondition - 1
                 \/ pollLoops'[l].timers = pollLoops[l].timers - 1
           /\ pollLoops'[l].timers > pollLoops[l].timers =>
                 /\ pollLoops'[l].fetches = pollLoops[l].fetches - 1
                 /\ answer' = << Answered("v2NotificationPullGet", l, NoError) >> ]_vars

\* C16 witness: a timer of a cycle has fired and the fetch it issued is in
\* flight.
C16_Witness ==
    \E l \in Starts :
       /\ trace = << Issued("v2NotificationPullGet", l) >>
       /\ pollLoops[l].fetches = 1
       /\ pollLoops[l].timers = 0

\* C17: once startNotifications has been called while an earlier cycle was
\* running, at most one poll cycle is alive and at most one fetch is in
\* flight.
C17_SingleCycle ==
    (\E m \in Starts : pollLoops[m].overlaps) =>
        /\ Cardinality(Alive) <= 1
        /\ \A l, m \in Starts :
              pollLoops[l].fetches > 0 /\ pollLoops[m].fetches > 0 => l = m

\* A step in which the fetch of cycle l is answered with `error`.
FetchStep(l, error) ==
    /\ pollLoops'[l].fetches = pollLoops[l].fetches - 1
    /\ answer' = << Answered("v2NotificationPullGet", l, error) >>

\* C18: a fetch answered with an error while handling is active dispatches the
\* batch that came with it, if any, then turns handling off and sets no timer,
\* with or without a side-callback and with or without a batch.
C18_ErrorEndsLoop ==
    [][ \A l \in Starts : \A e \in TransportErrors \ {NoError} :
           FetchStep(l, e) /\ handleNotifications =>
               /\ batch' # << >>
               /\ LET events == NotifyResult(batch'[1], notifyFns, asyncFns).trace
                  IN  /\ Len(trace') >= Len(events)
                      /\ SubSeq(trace', 1, Len(events)) = events
               /\ ~ handleNotifications'
               /\ pollLoops'[l].timers = pollLoops[l].timers ]_vars

\* The fetch of cycle l was answered without error while handling was active:
\* the batch of the response was handed to notify().
FetchSucceeded(l) ==
    /\ answer = << Answered("v2NotificationPullGet", l, NoError) >>
    /\ batch # << >>

C20_RemovedBeforeCall ==
    [][ NotifyStep =>
          \A k \in 1..Len(trace') :
             trace'[k].kind = "asyncFn" =>
                /\ \A x \in DOMAIN asyncFns' : asyncFns'[x] # trace'[k].caller
                /\ \A j \in 1..Len(trace') :
                      /\ trace'[j].kind = "asyncFn"
                      /\ trace'[j].caller = trace'[k].caller
                      => j = k ]_vars

\* The invocations of the side callback in trace t.
SideCalls(t) == { k \in 1..Len(t) : t[k].kind = "requestCallback" }

\* C21: a fetched batch that is dispatched, of a cycle started with the side
\* callback, invokes the side callback exactly once, last, with the batch's
\* async responses, if the batch has async responses; otherwise, and for a
\* cycle started without the option, the side callback is not invoked.
C21_SideCallback ==
    [][ \A l \in Starts : \A e \in TransportErrors :
           FetchStep(l, e) /\ batch' # << >> /\ ~ batch'[1].isNull =>
              LET data == batch'[1]
                  events == NotifyResult(data, notifyFns, asyncFns).trace
              IN  IF pollLoops[l].requestCallback /\ data.asyncResponses # << >>
                  THEN /\ SideCalls(trace') = { Len(trace') }
                       /\ trace'[Len(trace')].responses = data.asyncResponses
                       /\ SubSeq(trace', 1, Len(trace') - 1) = events
                  ELSE /\ SideCalls(trace') = {}
                       /\ trace' = events ]_vars

\* A step of updateWebhook: its call or one of its two callbacks.
UpdateStep == updates' # updates

\* updateWebhook has completed, the latest step being its PUT callback.
UpdateCompleted ==
    /\ answer # << >>
    /\ answer[1].request.op = "v2NotificationCallbackPut"

\* C22: a step of updateWebhook leaves handleNotifications, the fetch in
\* flight, the pending timer, _pollRequest, the pending map and the
\* subscription map as they are; and a cycle whose timer is pending when
\* updateWebhook completes issues its next fetch.
C22_UpdateWebhookIsRemote ==
    /\ [][ UpdateStep =>
             UNCHANGED <<handleNotifications, pollLoops, pollRequest,
                         asyncFns, notifyFns>> ]_vars
    /\ \A l \in Starts :
          (UpdateCompleted /\ pollLoops[l].timers > 0)
             ~> (pollLoops[l].fetches > 0)

C22_Witness ==
    /\ UpdateCompleted
    /\ answer[1].error = NoError
    /\ handleNotifications
    /\ \E l \in Starts : pollLoops[l].timers > 0

\* The completion of c was registered and its entry overwritten: c's request
\* has been answered, c is not in the pending map and was never invoked.
Lost(c) ==
    /\ c \in called
    /\ \A r \in requests : r.caller # c
    /\ \A x \in DOMAIN asyncFns : asyncFns[x] # c
    /\ invoked[c] = 0

\* C23: a response that registers under an id already pending replaces the
\* entry without invoking anything; notify() invokes, for an id of its batch,
\* the completion the map holds at that moment, once, and no completion the
\* map does not hold; a completion that lost its entry is never invoked.
C23_SecondRegistrationWins ==
    [][ /\ \A x \in DOMAIN asyncFns :
              /\ AnswerStep
              /\ answer'[1].request.op \in ResourceOps
              /\ answer'[1].error = NoError
              /\ answer'[1].asyncID = x
              /\ handleNotifications
              => /\ asyncFns' = [asyncFns EXCEPT ![x] = answer'[1].request.caller]
                 /\ trace' = << >>
                 /\ invoked' = invoked
        /\ NotifyStep =>
              /\ \A x \in (DOMAIN asyncFns) \cap AsyncIdsIn(batch'[1]) :
                    Cardinality(AsyncCallsOf(trace', asyncFns[x])) = 1
              /\ \A k \in 1..Len(trace') :
                    trace'[k].kind = "asyncFn" =>
                       \E x \in (DOMAIN asyncFns) \cap AsyncIdsIn(batch'[1]) :
                          asyncFns[x] = trace'[k].caller
        /\ \A c \in Callers : Lost(c) => Lost(c)' ]_vars

\* C23 witness: one completion lost its entry and notify() has just invoked
\* the other one.
C23_Witness ==
    \E c, d \in Callers :
        /\ Lost(c)
        /\ d # c
        /\ AsyncCallsOf(trace, d) # {}

\* The step dispatches a batch that carries an async response with id x.
Dispatches(x) == batch' # << >> /\ x \in AsyncIdsIn(batch'[1])

\* The step handles the response of a resource operation that registers x.
RegistersId(x) ==
    /\ answer' # << >>
    /\ answer'[1].request.op \in ResourceOps
    /\ answer'[1].asyncID = x

\* The invocations of the completion of `caller` in trace t.
CallsOf(t, caller) ==
    { k \in 1..Len(t) : t[k].kind \in {"asyncFn", "done"} /\ t[k].caller = caller }

\* C24: a step that does not dispatch an async response with the id of a
\* pending entry keeps the entry and does not invoke its completion, be it a
\* step of startNotifications, stopNotifications, the poll cycle, getWebhook,
\* updateWebhook, deleteWebhook or notify(); a step that does removes it.
C24_PendingUntilDispatched ==
    [][ \A x \in DOMAIN asyncFns :
           IF Dispatches(x)
           THEN x \notin DOMAIN asyncFns'
           ELSE /\ x \in DOMAIN asyncFns'
                /\ asyncFns'[x] = asyncFns[x] \/ RegistersId(x)
                /\ CallsOf(trace', asyncFns[x]) = {} ]_vars

\* C24 witness: an entry is pending after a stop completed, a webhook was
\* registered and a fetch was answered with an error.
C24_Witness ==
    /\ asyncFns # EmptyMap
    /\ stopped # {}
    /\ backendWebhook # NoWebhook
    /\ \E l \in Starts :
          answer = << Answered("v2NotificationPullGet", l,
                               SDKError("transport", 500)) >>

\* The key under which the request of the response just handled subscribes.
AnsweredKey ==
    SubscriptionKey(answer'[1].request.deviceId, answer'[1].request.resourcePath)

\* C25: the handler of a successful addResourceSubscription response records
\* the notify function, and that of deleteResourceSubscription removes it,
\* whatever the async id and whether or not the completion is registered;
\* notify() leaves the subscription map unchanged whatever the status of the
\* async responses it dispatches, and leaves every pending entry whose id is
\* not among the batch's async responses unchanged.
C25_IndependentLifecycles ==
    [][ /\ AnswerStep /\ answer'[1].error = NoError =>
              /\ answer'[1].request.op = "addResourceSubscription"
                 /\ answer'[1].request.notifyFn # NoFn
                 => /\ AnsweredKey \in DOMAIN notifyFns'
                    /\ notifyFns'[AnsweredKey] = answer'[1].request.notifyFn
              /\ answer'[1].request.op = "deleteResourceSubscription"
                 => AnsweredKey \notin DOMAIN notifyFns'
        /\ NotifyStep =>
              /\ notifyFns' = notifyFns
              /\ \A x \in (DOMAIN asyncFns) \ AsyncIdsIn(batch'[1]) :
                    x \in DOMAIN asyncFns' /\ asyncFns'[x] = asyncFns[x]
              /\ batch'[1].asyncResponses = << >> => asyncFns' = asyncFns ]_vars

\* C25 witness: with a subscription recorded, the async response of a
\* subscription operation has been dispatched with status 400 to its
\* completion.
C25_Witness ==
    /\ notifyFns # EmptyMap
    /\ batch # << >>
    /\ Len(batch[1].asyncResponses) = 1
    /\ batch[1].asyncResponses[1].status = 400
    /\ \E k \in 1..Len(trace) : trace[k].kind = "asyncFn" /\ trace[k].err # ErrNull

C27_DiscardedWhenIdle ==
    [][ \A l \in Starts : \A e \in TransportErrors :
           FetchStep(l, e) /\ ~ handleNotifications =>
              /\ batch' = << >>
              /\ trace' = << >>
              /\ UNCHANGED <<asyncFns, notifyFns, invoked, handleNotifications>>
              /\ pollLoops'[l] = [pollLoops[l] EXCEPT !.fetches = @ - 1] ]_vars

\* C27 witness: a fetch has been answered, while the flag was false and a
\* completion was pending, to a cycle started with the side callback.
C27_Witness ==
    /\ ~ handleNotifications
    /\ asyncFns # EmptyMap
    /\ batch = << >>
    /\ trace = << >>
    /\ \E l \in Starts :
          /\ answer = << Answered("v2NotificationPullGet", l, NoError) >>
          /\ pollLoops[l].requestCallback
          /\ pollLoops[l].timers = 0

\* C28: the handler of a successful response carrying an async id registers
\* the completion, and leaves it uninvoked, exactly if the flag is true when
\* the response is handled, and otherwise settles it with the id and adds no
\* entry, whatever the flag was when the operation was called.
C28_DecidedAtResponse ==
    [][ /\ AnswerStep
        /\ answer'[1].request.op \in ResourceOps
        /\ answer'[1].error = NoError
        /\ answer'[1].asyncID # ""
        => LET request == answer'[1].request
               asyncID == answer'[1].asyncID
           IN  IF handleNotifications
               THEN /\ asyncFns' = Put(asyncFns, asyncID, request.caller)
                    /\ trace' = << >>
                    /\ invoked' = invoked
               ELSE /\ asyncFns' = asyncFns
                    /\ trace' = << Settled(request.caller, asyncID) >>
                    /\ invoked'[request.caller] = invoked[request.caller] + 1 ]_vars

\* The response of a resource operation has just been handled.
ResourceAnswered == answer # << >> /\ answer[1].request.op \in ResourceOps

\* C28 witness: an operation called while the flag was true has been settled
\* with its async id, its response handled after the flag was cleared.
C28_Witness ==
    /\ ResourceAnswered
    /\ answer[1].request.handling
    /\ answer[1].asyncID # ""
    /\ ~ handleNotifications
    /\ trace = << Settled(answer[1].request.caller, answer[1].asyncID) >>
    /\ asyncFns = EmptyMap

\* An operation called while the flag was false has registered its
\* completion, its response handled after startNotifications completed.
C28_RegisteredAfterStart ==
    /\ ResourceAnswered
    /\ ~ answer[1].request.handling
    /\ answer[1].asyncID # ""
    /\ handleNotifications
    /\ trace = << >>
    /\ DOMAIN asyncFns = { answer[1].asyncID }

\* C29: the callback of the preliminary delete of startNotifications, whatever
\* the delete was answered with, issues the first fetch, then assigns true to
\* handleNotifications, then signals (null, null), in that order and nothing
\* else; the flag is true and one fetch in flight when it returns.
C29_StartAlwaysSucceeds ==
    [][ \A l \in Starts :
           pollLoops'[l].precondition = pollLoops[l].precondition - 1 =>
              /\ answer'[1].request.op = "deleteWebhook"
              /\ trace' = << Issued("v2NotificationPullGet", l), Assigned(l),
                             Done("startNotifications", l, ErrNull) >>
              /\ handleNotifications'
              /\ pollLoops'[l].fetches = pollLoops[l].fetches + 1 ]_vars

\* C29 witness: the preliminary delete was answered with a transport error
\* and startNotifications has signalled success.
C29_Witness ==
    \E l \in Starts :
       /\ answer = << Answered("deleteWebhook", l, SDKError("transport", 500)) >>
       /\ handleNotifications
       /\ Len(trace) = 3
       /\ trace[3] = Done("startNotifications", l, ErrNull)

\* A step that is a call of notify() by the application, not by the poll
\* cycle.
DirectNotifyStep == batch' # << >> /\ answer' = << >>

\* startNotifications has completed at some time: the flag has been true.
HasHandled == \E l \in Starts : pollLoops[l].started /\ pollLoops[l].precondition = 0

\* C30: notify() called by the application dispatches its batch the same way
\* whatever the flag is, and leaves the flag alone: a pending entry whose id
\* the batch carries is invoked once and removed; an entry is added to the
\* pending map only in a step taken with the flag true, and as long as the
\* flag has never been true the pending map is empty.
C30_NotifyIgnoresFlag ==
    /\ [][ DirectNotifyStep =>
             LET res == NotifyResult(batch'[1], notifyFns, asyncFns)
             IN  /\ trace' = res.trace
                 /\ asyncFns' = res.fns
                 /\ handleNotifications' = handleNotifications
                 /\ \A x \in (DOMAIN asyncFns) \cap AsyncIdsIn(batch'[1]) :
                       /\ Cardinality(AsyncCallsOf(trace', asyncFns[x])) = 1
                       /\ x \notin DOMAIN asyncFns' ]_vars
    /\ [][ (DOMAIN asyncFns') \ (DOMAIN asyncFns) # {} => handleNotifications ]_vars
    /\ [](~ HasHandled => asyncFns = EmptyMap)

\* C30 witness: after a stop completed, with the flag false, notify() called
\* by the application has invoked a pending completion.
C30_Witness ==
    /\ ~ handleNotifications
    /\ stopped # {}
    /\ batch # << >>
    /\ answer = << >>
    /\ asyncFns = EmptyMap
    /\ \E k \in 1..Len(trace) : trace[k].kind = "asyncFn"

====
